---- MODULE Spec2Model ----
(***************************************************************************)
(* State-machine model of the RCM staffing optimizer (src/rcm/optimizer.py)*)
(* and of the configuration and calculations it reads.                     *)
(*                                                                         *)
(* Arithmetic.  The Python code computes with floats; the model computes   *)
(* with exact fixed-point integers:                                        *)
(*   - rates and productivity fractions are percentages (0.15 -> 15),      *)
(*   - daily workloads and daily capacities are in hundredths of a claim   *)
(*     per day, which is exact for the configured constants,               *)
(*   - money is in cents.                                                  *)
(* Python dicts are functions with a finite domain.  The two inner cohort  *)
(* dicts are objects on a heap, so that a reference held by an emitted     *)
(* plan and the reference held by the optimizer can name the same object.  *)
(***************************************************************************)
EXTENDS Integers, Sequences, FiniteSets, TLC

\* ------------------------------------------------------------------ bounds
MaxAccounts == 2        \* largest monthly increment of the growth schedule
MaxRuns == 2            \* program runs (construct + optimize) in a behaviour
MaxProbeCount == 2      \* largest cohort headcount in a capacity probe
MaxProbeMonth == 4      \* largest month in a capacity probe
MaxProbeLoad == 3       \* probe workloads are 0..MaxProbeLoad times ProbeLoadStep

\* ----------------------------------------------------- program constants
Horizon == 4                    \* self.months = list(range(4))
claims_per_account == 10000
average_claim_value == 200
revenue_percentage == 5         \* 0.05, percent
denial_rate == 15               \* 0.15, percent
recovery_rate == 60             \* 0.60, percent
analysts_per_manager == 24
base_analyst == 250             \* $2.50 per hour, cents
manager == 375                  \* $3.75 per hour, cents
per_analyst == 5000             \* $50, cents
per_manager == 10000            \* $100, cents
fixed_monthly == 1000000        \* $10,000, cents
days_per_month == 20            \* the second TIME_CONSTANTS table wins
hours_per_day == 8
throughput_submission == 100
throughput_denial == 40
FullyRampedTenure == 2          \* months_since_hire >= 2 uses productivity[2]

ProcessTypes == {"submission", "denial"}

\* Productivity fractions (percent) the ramp-up tables are drawn from; the
\* tiers need not be ordered.
Fractions == {50, 80, 100}
CoarseFractions == {80, 100}
Tiers(F) == {<<a, b, c>> : a \in F, b \in F, c \in F}

\* PRODUCTIVITY_RAMP_UP is read by the optimizer but config.py does not
\* define it; a configuration module either lacks the attribute or supplies
\* one table per process type.
RampTable(ps, pd) ==
    [submission |-> [base_throughput |-> throughput_submission, productivity |-> ps],
     denial     |-> [base_throughput |-> throughput_denial,     productivity |-> pd]]
RampTables ==
    { RampTable(p, p) : p \in Tiers(Fractions) }
    \cup { RampTable(ps, pd) : ps \in Tiers(CoarseFractions), pd \in Tiers(CoarseFractions) }

\* Growth schedules: month -> accounts added; a month may be absent.
GrowthSchedules == UNION { [D -> 1..MaxAccounts] : D \in SUBSET (1..(Horizon - 1)) }

\* The configuration module as the optimizer sees it: attribute -> value.
Configurations ==
    { [ACCOUNTS_PER_MONTH |-> g] : g \in GrowthSchedules }
    \cup { [ACCOUNTS_PER_MONTH |-> g, PRODUCTIVITY_RAMP_UP |-> r] :
              g \in GrowthSchedules, r \in RampTables }

VARIABLES
    cfg,                    \* the config module: attribute name -> value
    monthly_metrics,        \* self.monthly_metrics, index month + 1
    cohorts,                \* self.cohorts: process type -> reference to a dict
    heap,                   \* reference -> dict (hire month -> headcount)
    results,                \* the list optimize() is building / has returned
    month,                  \* next month optimize() processes
    pc,                     \* "constructed", "running", "done", "error", "probe"
    err,                    \* the exception that ended the run, or "none"
    run,                    \* number of the current program run
    history,                \* results returned by earlier runs
    sizer_calls,            \* log of this run's _calculate_net_new_hires calls
    probe                   \* inputs and outputs of a tracker / sizer probe

vars == <<cfg, monthly_metrics, cohorts, heap, results, month, pc, err, run, history,
          sizer_calls, probe>>

\* getattr(cfg, name) raises AttributeError when the attribute is absent
HasAttr(name) == name \in DOMAIN cfg

\* ----------------------------------------------------------------- dicts
EmptyDict == [k \in {} |-> 0]

DictSet(d, k, v) == [j \in (DOMAIN d) \cup {k} |-> IF j = k THEN v ELSE d[j]]

DictGet(d, k, default) == IF k \in DOMAIN d THEN d[k] ELSE default

RECURSIVE SumOver(_, _)
SumOver(S, f) ==
    IF S = {} THEN 0
    ELSE LET k == CHOOSE x \in S : TRUE
         IN f[k] + SumOver(S \ {k}, f)

Max(a, b) == IF a >= b THEN a ELSE b

\* math.ceil of the quotient a / b, for a >= 0 and b > 0
Ceil(a, b) == (a + b - 1) \div b

\* --------------------------------------------------- Workload Projector
\* a plausible slip: the month's increment instead of the running total
ActiveAccountsIncrementOnly(m) ==
    IF m = 0 THEN 0 ELSE DictGet(cfg.ACCOUNTS_PER_MONTH, m, 0)

\* RCMOptimizer._get_active_accounts
_get_active_accounts(m) ==
    IF m = 0 THEN 0
    ELSE SumOver(1..m, [k \in 1..m |-> DictGet(cfg.ACCOUNTS_PER_MONTH, k, 0)])

\* calc.calculate_claims_metrics
calculate_claims_metrics(accounts) ==
    [monthly_claims       |-> accounts * claims_per_account,
     monthly_claims_value |-> accounts * claims_per_account * average_claim_value]

\* calc.calculate_revenue, in cents
calculate_revenue(claims) == claims.monthly_claims_value * revenue_percentage

\* the loop of RCMOptimizer.__init__
InitMonthlyMetrics ==
    [i \in 1..Horizon |->
        LET accounts == _get_active_accounts(i - 1)
            claims == calculate_claims_metrics(accounts)
        IN [accounts |-> accounts, claims |-> claims, revenue |-> calculate_revenue(claims)]]

\* ------------------------------------------------ Cohort Capacity Tracker
\* The tracker as the methods read it: process type -> dict.
Tracker == [pt \in ProcessTypes |-> heap[cohorts[pt]]]

\* a plausible slip: the fully ramped branch reads tier 0
CohortProductivityTierSlip(productivity, months_since_hire) ==
    IF months_since_hire >= FullyRampedTenure
    THEN productivity[1]
    ELSE productivity[months_since_hire + 1]

\* the productivity of a cohort by tenure (Python index t is TLA+ index t + 1)
CohortProductivity(productivity, months_since_hire) ==
    IF months_since_hire >= FullyRampedTenure
    THEN productivity[3]
    ELSE productivity[months_since_hire + 1]

\* RCMOptimizer._calculate_effective_capacity; c is self.cohorts.
\* Result in hundredths of a claim per day.
_calculate_effective_capacity(c, m, process_type) ==
    LET base_throughput == cfg.PRODUCTIVITY_RAMP_UP[process_type].base_throughput
        productivity == cfg.PRODUCTIVITY_RAMP_UP[process_type].productivity
        d == c[process_type]
        contribution ==
            [cohort_month \in DOMAIN d |->
                IF cohort_month <= m
                THEN LET months_since_hire == m - cohort_month
                         cohort_productivity ==
                             CohortProductivity(productivity, months_since_hire)
                     IN d[cohort_month] * cohort_productivity * base_throughput
                ELSE 0]
    IN SumOver(DOMAIN d, contribution)

\* RCMOptimizer._calculate_total_active_analysts
_calculate_total_active_analysts(c, m, process_type) ==
    LET d == c[process_type]
    IN SumOver({k \in DOMAIN d : k <= m}, d)

\* ---------------------------------------------------- Gap-Driven Hire Sizer
\* a plausible slip: the quotient is truncated instead of rounded up
HiresForGapTruncated(capacity_gap, new_hire_throughput) == capacity_gap \div new_hire_throughput

\* a plausible slip: int(quotient) + 1, a whole head too many on an exact fit
HiresForGapPlusOne(capacity_gap, new_hire_throughput) ==
    (capacity_gap \div new_hire_throughput) + 1

\* the rounding of the hire count: ceil(capacity_gap / new-hire throughput)
HiresForGap(capacity_gap, new_hire_throughput) == Ceil(capacity_gap, new_hire_throughput)

\* a plausible slip: the sizer forgets the capacity already in the tracker
NetNewHiresIgnoringCapacity(c, m, daily_workload, process_type) ==
    LET monthly_workload == daily_workload * days_per_month
        new_cohort_productivity == cfg.PRODUCTIVITY_RAMP_UP[process_type].productivity[1]
        base_throughput == cfg.PRODUCTIVITY_RAMP_UP[process_type].base_throughput
        monthly_throughput == base_throughput * days_per_month
    IN IF monthly_workload <= 0 THEN 0
       ELSE HiresForGap(monthly_workload, new_cohort_productivity * monthly_throughput)

\* RCMOptimizer._calculate_net_new_hires; daily_workload in hundredths per day
_calculate_net_new_hires(c, m, daily_workload, process_type) ==
    LET monthly_workload == daily_workload * days_per_month
        current_capacity == _calculate_effective_capacity(c, m, process_type)
        monthly_capacity == current_capacity * days_per_month
        capacity_gap == Max(0, monthly_workload - monthly_capacity)
        new_cohort_productivity == cfg.PRODUCTIVITY_RAMP_UP[process_type].productivity[1]
        base_throughput == cfg.PRODUCTIVITY_RAMP_UP[process_type].base_throughput
        monthly_throughput == base_throughput * days_per_month
    IN IF capacity_gap <= 0 THEN 0
       ELSE HiresForGap(capacity_gap, new_cohort_productivity * monthly_throughput)

\* -------------------------------------------------- Constrained Plan Solver
\* Exact quotients: den = 0 stands for the ZeroDivisionError Python raises.
Zero == [num |-> 0, den |-> 1]
Divide(a, b) == [num |-> a, den |-> b]

\* a plausible slip: the quotient without the revenue guard
GrossMarginUnguarded(revenue, total_cost) == Divide(revenue - total_cost, revenue)

\* gross_margin = (revenue - total_cost) / revenue if revenue > 0 else 0
GrossMargin(revenue, total_cost) ==
    IF revenue > 0 THEN Divide(revenue - total_cost, revenue) ELSE Zero

\* daily_claims = monthly_claims / days_per_month, in hundredths per day
DailyClaims(active_accounts) ==
    (active_accounts * claims_per_account * 100) \div days_per_month

\* daily_denials = daily_claims * denial_rate
DailyDenials(daily_claims) == (daily_claims * denial_rate) \div 100

\* the workloads _optimize_staffing hands to the sizer
SubmissionWorkload(daily_claims) == daily_claims
DenialWorkload(daily_claims) == DailyDenials(daily_claims)

\* The integer program: managers >= total analysts / analysts_per_manager,
\* managers a non-negative integer, cost increasing in managers; the hire
\* variables are pinned by equality constraints.  The solver returns the
\* least feasible manager count.
Feasible(managers, total_analysts) == managers * analysts_per_manager >= total_analysts

\* a plausible slip: one manager per started group plus one, never the tight bound
SolveWithSlack(total_analysts) == (total_analysts \div analysts_per_manager) + 1

Solve(total_analysts) ==
    CHOOSE k \in 0..((total_analysts \div analysts_per_manager) + 1) :
        /\ Feasible(k, total_analysts)
        /\ \A j \in 0..(k - 1) : ~Feasible(j, total_analysts)

\* a plausible slip: later hires are merged into the first cohort
UpdateCohortsMerged(d, m, new_hires) ==
    IF m = 0 THEN DictSet(d, 0, new_hires)
    ELSE IF new_hires > 0 THEN DictSet(d, 0, DictGet(d, 0, 0) + new_hires)
    ELSE d

\* a plausible slip: the staff trained in month 0 is never recorded
UpdateCohortsSkipTraining(d, m, new_hires) ==
    IF m # 0 /\ new_hires > 0 THEN DictSet(d, m, new_hires) ELSE d

\* the cohort update of _optimize_staffing, on one process type's dict
UpdateCohorts(d, m, new_hires) ==
    IF m = 0 THEN DictSet(d, 0, new_hires)
    ELSE IF new_hires > 0 THEN DictSet(d, m, new_hires)
    ELSE d

\* self.cohorts.copy(): a new outer dict holding the same two references
CohortsCopy(c) == [pt \in DOMAIN c |-> c[pt]]

\* RCMOptimizer._optimize_staffing, for the case that it returns.
\* "committed" is the content of the two cohort dicts after the update.
_optimize_staffing(m, active_accounts) ==
    LET monthly_claims == active_accounts * claims_per_account
        daily_claims == DailyClaims(active_accounts)
        submission_workload == SubmissionWorkload(daily_claims)
        denial_workload == DenialWorkload(daily_claims)
        new_submission_analysts ==
            _calculate_net_new_hires(Tracker, m, submission_workload, "submission")
        new_denial_analysts ==
            _calculate_net_new_hires(Tracker, m, denial_workload, "denial")
        total_submission_analysts ==
            _calculate_total_active_analysts(Tracker, m, "submission") + new_submission_analysts
        total_denial_analysts ==
            _calculate_total_active_analysts(Tracker, m, "denial") + new_denial_analysts
        managers == Solve(total_submission_analysts + total_denial_analysts)
        labor_cost ==
            total_submission_analysts * base_analyst * hours_per_day * days_per_month
            + total_denial_analysts * base_analyst * hours_per_day * days_per_month
            + managers * manager * hours_per_day * days_per_month
        overhead_cost ==
            (total_submission_analysts + total_denial_analysts) * per_analyst
            + managers * per_manager + fixed_monthly
        total_cost == labor_cost + overhead_cost
        revenue == monthly_claims * average_claim_value * revenue_percentage
    IN [month |-> m,
        active_accounts |-> active_accounts,
        submission_analysts |-> total_submission_analysts,
        denial_analysts |-> total_denial_analysts,
        managers |-> managers,
        labor_cost |-> labor_cost,
        overhead_cost |-> overhead_cost,
        total_cost |-> total_cost,
        revenue |-> revenue,
        gross_margin |-> GrossMargin(revenue, total_cost),
        cohorts |-> CohortsCopy(cohorts),
        committed |->
            [submission |-> UpdateCohorts(Tracker.submission, m, new_submission_analysts),
             denial |-> UpdateCohorts(Tracker.denial, m, new_denial_analysts)],
        calls |->
            << [month |-> m, process_type |-> "submission",
                daily_workload |-> submission_workload, hires |-> new_submission_analysts],
               [month |-> m, process_type |-> "denial",
                daily_workload |-> denial_workload, hires |-> new_denial_analysts] >>]

\* The exception _optimize_staffing raises instead of returning, or "none".
StaffingError(m, active_accounts) ==
    IF ~HasAttr("PRODUCTIVITY_RAMP_UP") THEN "AttributeError"
    ELSE IF _optimize_staffing(m, active_accounts).gross_margin.den = 0
         THEN "ZeroDivisionError"
    ELSE "none"

\* ---------------------------------------------------------- Plan Sequencer
\* self.monthly_metrics[m]
MetricsOf(m) == monthly_metrics[m + 1]

\* the month-0 entry optimize() appends
Month0Plan(month_1_staff) ==
    [month |-> 0,
     active_accounts |-> 0,
     submission_analysts |-> month_1_staff.submission_analysts,
     denial_analysts |-> month_1_staff.denial_analysts,
     managers |-> month_1_staff.managers,
     labor_cost |-> month_1_staff.labor_cost,
     overhead_cost |-> month_1_staff.overhead_cost,
     total_cost |-> month_1_staff.total_cost,
     revenue |-> 0,
     margin |-> Zero,
     cohorts |-> month_1_staff.cohorts]

\* the entry optimize() appends for months 1..3
MonthPlan(m, metrics, staff) ==
    [month |-> m,
     active_accounts |-> metrics.accounts,
     submission_analysts |-> staff.submission_analysts,
     denial_analysts |-> staff.denial_analysts,
     managers |-> staff.managers,
     labor_cost |-> staff.labor_cost,
     overhead_cost |-> staff.overhead_cost,
     total_cost |-> staff.total_cost,
     revenue |-> staff.revenue,
     margin |-> staff.gross_margin,
     cohorts |-> staff.cohorts]

\* a plausible slip: month 0 is sized on its own (empty) workload
AccountsForSameMonth(m) == MetricsOf(m).accounts

\* the accounts optimize() passes to _optimize_staffing for month m
AccountsFor(m) == IF m = 0 THEN MetricsOf(1).accounts ELSE MetricsOf(m).accounts

\* the two cohort dicts RCMOptimizer.__init__ allocates for optimizer number r
CohortRefs(r) == [submission |-> 2 * r - 1, denial |-> 2 * r]

\* a plausible slip: the cohort dicts are process-wide state, so a new
\* optimizer starts from the cohorts of the one before it
NewCohortsShared(h, r) ==
    [i \in (DOMAIN h) \cup {2 * r - 1, 2 * r} |->
        IF i \in {2 * r - 1, 2 * r}
        THEN (IF (i - 2) \in DOMAIN h THEN h[i - 2] ELSE EmptyDict)
        ELSE h[i]]

NewCohorts(h, r) ==
    [i \in (DOMAIN h) \cup {2 * r - 1, 2 * r} |->
        IF i \in {2 * r - 1, 2 * r} THEN EmptyDict ELSE h[i]]

\* writes the committed cohort dicts back through the optimizer's references
Commit(h, committed) ==
    [i \in DOMAIN h |->
        IF i = cohorts.submission THEN committed.submission
        ELSE IF i = cohorts.denial THEN committed.denial
        ELSE h[i]]

NoProbe == [kind |-> "none"]

\* RCMOptimizer() has been constructed from some configuration.
Init ==
    /\ cfg \in Configurations
    /\ monthly_metrics = InitMonthlyMetrics
    /\ cohorts = CohortRefs(1)
    /\ heap = NewCohorts(EmptyDict, 1)
    /\ results = << >>
    /\ month = 0
    /\ pc = "constructed"
    /\ err = "none"
    /\ run = 1
    /\ history = << >>
    /\ sizer_calls = << >>
    /\ probe = NoProbe

\* optimize(), month 0: train the staff month 1 needs
OptimizeMonth0 ==
    /\ pc = "constructed"
    /\ StaffingError(0, AccountsFor(0)) = "none"
    /\ LET month_1_staff == _optimize_staffing(0, AccountsFor(0))
       IN /\ results' = << Month0Plan(month_1_staff) >>
          /\ heap' = Commit(heap, month_1_staff.committed)
          /\ sizer_calls' = sizer_calls \o month_1_staff.calls
    /\ month' = 1
    /\ pc' = "running"
    /\ UNCHANGED <<cfg, monthly_metrics, cohorts, err, run, history, probe>>

\* optimize(), one iteration of the loop over months 1..3
OptimizeMonth ==
    /\ pc = "running"
    /\ month \in 1..(Horizon - 1)
    /\ StaffingError(month, AccountsFor(month)) = "none"
    /\ LET staff == _optimize_staffing(month, AccountsFor(month))
       IN /\ results' = Append(results, MonthPlan(month, MetricsOf(month), staff))
          /\ heap' = Commit(heap, staff.committed)
          /\ sizer_calls' = sizer_calls \o staff.calls
    /\ month' = month + 1
    /\ pc' = IF month = Horizon - 1 THEN "done" ELSE "running"
    /\ UNCHANGED <<cfg, monthly_metrics, cohorts, err, run, history, probe>>

\* optimize() is ended by an exception raised in _optimize_staffing
OptimizeRaises ==
    /\ pc \in {"constructed", "running"}
    /\ StaffingError(month, AccountsFor(month)) # "none"
    /\ err' = StaffingError(month, AccountsFor(month))
    /\ pc' = "error"
    /\ UNCHANGED <<cfg, monthly_metrics, cohorts, heap, results, month, run, history,
                   sizer_calls, probe>>

\* The program is run again with the same configuration: main() constructs
\* a new RCMOptimizer.
Construct ==
    /\ pc \in {"done", "error"}
    /\ run < MaxRuns
    /\ run' = run + 1
    /\ history' = Append(history, results)
    /\ monthly_metrics' = InitMonthlyMetrics
    /\ cohorts' = CohortRefs(run + 1)
    /\ heap' = NewCohorts(heap, run + 1)
    /\ results' = << >>
    /\ month' = 0
    /\ pc' = "constructed"
    /\ err' = "none"
    /\ sizer_calls' = << >>
    /\ UNCHANGED <<cfg, probe>>

Next == OptimizeMonth0 \/ OptimizeMonth \/ OptimizeRaises \/ Construct

Spec == Init /\ [][Next]_vars

\* ------------------------------------------- tracker and sizer as functions
\* The tracker methods are pure in (tracker state, arguments).  SpecProbe
\* starts from an optimizer whose tracker holds an arbitrary bounded set of
\* cohorts and calls _calculate_effective_capacity and
\* _calculate_net_new_hires with arbitrary bounded arguments.
ProbeLoadStep == throughput_denial * 100    \* 40 claims per day, in hundredths
ProbeMonths == 0..MaxProbeMonth
ProbeLoads == {i * ProbeLoadStep : i \in 0..MaxProbeLoad}
ProbeHireMonths == 0..(Horizon - 2)
ProbeDicts == UNION { [D -> 0..MaxProbeCount] : D \in SUBSET ProbeHireMonths }
ProbeConfigurations ==
    { [ACCOUNTS_PER_MONTH |-> EmptyDict, PRODUCTIVITY_RAMP_UP |-> RampTable(p, p)] :
        p \in Tiers(Fractions) }

InitProbe ==
    /\ cfg \in ProbeConfigurations
    /\ monthly_metrics = InitMonthlyMetrics
    /\ cohorts = CohortRefs(1)
    /\ \E d \in ProbeDicts : heap = [i \in {1, 2} |-> d]
    /\ results = << >>
    /\ month = 0
    /\ pc = "probe"
    /\ err = "none"
    /\ run = 1
    /\ history = << >>
    /\ sizer_calls = << >>
    /\ probe = NoProbe

Probe(m, process_type, daily_workload) ==
    /\ pc = "probe"
    /\ probe = NoProbe
    /\ probe' = [kind |-> "call",
                 month |-> m,
                 process_type |-> process_type,
                 daily_workload |-> daily_workload,
                 capacity |-> _calculate_effective_capacity(Tracker, m, process_type),
                 hires |-> _calculate_net_new_hires(Tracker, m, daily_workload, process_type)]
    /\ UNCHANGED <<cfg, monthly_metrics, cohorts, heap, results, month, pc, err, run,
                   history, sizer_calls>>

NextProbe == \E m \in ProbeMonths, pt \in ProcessTypes, w \in ProbeLoads : Probe(m, pt, w)

SpecProbe == InitProbe /\ [][NextProbe]_vars

\* =================================================================== claims
\* the sizer call optimize() made for month m and a process type, this run
HasCall(m, pt) ==
    \E i \in DOMAIN sizer_calls :
        sizer_calls[i].month = m /\ sizer_calls[i].process_type = pt
CallOf(m, pt) ==
    sizer_calls[CHOOSE i \in DOMAIN sizer_calls :
                    sizer_calls[i].month = m /\ sizer_calls[i].process_type = pt]

\* the plan emitted for month m is results[m + 1]
Emitted(m) == Len(results) > m
PlanOf(m) == results[m + 1]

\* C1: in every operating month 1..3 and for each process type, once the
\* month's hires are committed, the tracker's effective capacity for that
\* month is at least the daily workload the sizer was given for it.
C1_ThroughputFeasible ==
    \A m \in 1..(Horizon - 1), pt \in ProcessTypes :
        Emitted(m) =>
            _calculate_effective_capacity(Tracker, m, pt) >= CallOf(m, pt).daily_workload

\* C1 witness: an operating month in which a positive hire count was
\* committed and the resulting capacity covers that month's workload.
C1_Witness ==
    \E m \in 1..(Horizon - 1), pt \in ProcessTypes :
        /\ Emitted(m)
        /\ CallOf(m, pt).hires > 0
        /\ m \in DOMAIN Tracker[pt]
        /\ _calculate_effective_capacity(Tracker, m, pt) >= CallOf(m, pt).daily_workload

\* C2: in every emitted plan the manager count is exactly the ceiling of
\* (submission analysts + denial analysts) / analysts_per_manager.
C2_ManagersTight ==
    \A i \in DOMAIN results :
        LET total == results[i].submission_analysts + results[i].denial_analysts
        IN /\ results[i].managers * analysts_per_manager >= total
           /\ (results[i].managers - 1) * analysts_per_manager < total
           /\ results[i].managers = Ceil(total, analysts_per_manager)

\* C2 witness: a plan with more than one manager whose analyst total is not
\* a multiple of the ratio, and a plan whose total is a positive multiple.
C2_Witness ==
    /\ \E i \in DOMAIN results :
        /\ results[i].managers >= 2
        /\ (results[i].submission_analysts + results[i].denial_analysts)
               % analysts_per_manager # 0
    /\ \E i \in DOMAIN results :
        /\ results[i].managers >= 1
        /\ (results[i].submission_analysts + results[i].denial_analysts)
               % analysts_per_manager = 0

\* the cohort snapshot a plan holds, as a reader sees it
Snapshot(plan) == [pt \in ProcessTypes |-> heap[plan.cohorts[pt]]]

\* C3: when the run has finished, the snapshot in the plan of month m
\* contains only cohorts hired in months <= m (later commits did not reach it).
C3_SnapshotIsolated ==
    pc = "done" =>
        \A i \in DOMAIN results :
            \A pt \in ProcessTypes :
                \A k \in DOMAIN Snapshot(results[i])[pt] : k <= results[i].month

\* the tracker before any hire
EmptyTracker == [pt \in ProcessTypes |-> EmptyDict]

\* the daily claims projected for month 1 from the growth schedule
Month1DailyClaims == (DictGet(cfg.ACCOUNTS_PER_MONTH, 1, 0) * claims_per_account * 100)
                         \div days_per_month

\* C4: the month-0 plan has zero accounts, revenue and margin; its headcounts
\* are the hire counts the sizer gives for month 1's workload on an empty
\* tracker, and those counts are the month-0 cohorts.
C4_Month0Training ==
    Emitted(0) =>
        LET sub == _calculate_net_new_hires(EmptyTracker, 0,
                       SubmissionWorkload(Month1DailyClaims), "submission")
            den == _calculate_net_new_hires(EmptyTracker, 0,
                       DenialWorkload(Month1DailyClaims), "denial")
        IN /\ PlanOf(0).month = 0
           /\ PlanOf(0).active_accounts = 0
           /\ PlanOf(0).revenue = 0
           /\ PlanOf(0).margin = Zero
           /\ PlanOf(0).submission_analysts = sub
           /\ PlanOf(0).denial_analysts = den
           /\ 0 \in DOMAIN Tracker.submission /\ Tracker.submission[0] = sub
           /\ 0 \in DOMAIN Tracker.denial /\ Tracker.denial[0] = den

\* C4 witness: month 0 was emitted with a non-zero training headcount for
\* both process types.
C4_Witness ==
    /\ Emitted(0)
    /\ PlanOf(0).submission_analysts > 0
    /\ PlanOf(0).denial_analysts > 0
    /\ Tracker.submission[0] = PlanOf(0).submission_analysts
    /\ PlanOf(0).revenue = 0

\* a plan with its cohort references replaced by what they refer to
PlanValue(plan) ==
    [month |-> plan.month,
     active_accounts |-> plan.active_accounts,
     submission_analysts |-> plan.submission_analysts,
     denial_analysts |-> plan.denial_analysts,
     managers |-> plan.managers,
     labor_cost |-> plan.labor_cost,
     overhead_cost |-> plan.overhead_cost,
     total_cost |-> plan.total_cost,
     revenue |-> plan.revenue,
     margin |-> plan.margin,
     cohorts |-> Snapshot(plan)]
PlanValues(rs) == [i \in DOMAIN rs |-> PlanValue(rs[i])]

C6_SizerNonNegative ==
    probe.kind = "call" =>
        /\ probe.hires \in Nat
        /\ (probe.capacity >= probe.daily_workload => probe.hires = 0)

\* C6 witness: a sizer call on a tracker whose positive capacity covers a
\* positive workload, answered with 0 hires.
C6_Witness ==
    /\ probe.kind = "call"
    /\ probe.daily_workload > 0
    /\ probe.capacity >= probe.daily_workload
    /\ probe.hires = 0

TiersNonDecreasing(pt) ==
    LET productivity == cfg.PRODUCTIVITY_RAMP_UP[pt].productivity
    IN productivity[1] <= productivity[2] /\ productivity[2] <= productivity[3]

\* C7: with the cohorts fixed and the tiers non-decreasing, effective
\* capacity does not decrease from one evaluation month to the next, is
\* constant once every cohort has tenure >= 2, and is 0 in a month before
\* every cohort's hire month.
C7_CapacityMonotone ==
    (probe.kind = "call" /\ TiersNonDecreasing(probe.process_type)) =>
        LET d == Tracker[probe.process_type]
            next_capacity ==
                _calculate_effective_capacity(Tracker, probe.month + 1, probe.process_type)
        IN /\ probe.capacity <= next_capacity
           /\ (\A k \in DOMAIN d : probe.month - k >= FullyRampedTenure)
                  => next_capacity = probe.capacity
           /\ (\A k \in DOMAIN d : probe.month < k) => probe.capacity = 0

\* C7 witness: a tracker with a cohort hired after month 0 whose capacity is
\* 0 before the hire; and one whose capacity is positive and fully ramped.
C7_WitnessBeforeHire ==
    /\ probe.kind = "call"
    /\ TiersNonDecreasing(probe.process_type)
    /\ DOMAIN Tracker[probe.process_type] # {}
    /\ \A k \in DOMAIN Tracker[probe.process_type] :
           probe.month < k /\ Tracker[probe.process_type][k] > 0
    /\ probe.capacity = 0

C7_Witness ==
    /\ probe.kind = "call"
    /\ TiersNonDecreasing(probe.process_type)
    /\ cfg.PRODUCTIVITY_RAMP_UP[probe.process_type].productivity[1]
           < cfg.PRODUCTIVITY_RAMP_UP[probe.process_type].productivity[3]
    /\ Cardinality(DOMAIN Tracker[probe.process_type]) >= 2
    /\ \A k \in DOMAIN Tracker[probe.process_type] :
           probe.month - k >= FullyRampedTenure /\ Tracker[probe.process_type][k] > 0
    /\ probe.capacity > 0
    /\ probe.capacity
           = _calculate_effective_capacity(Tracker, probe.month + 1, probe.process_type)
    /\ probe.capacity
           > _calculate_effective_capacity(Tracker, probe.month - 1, probe.process_type)

\* the growth schedule's running total, month by month
ScheduleTotal(m) ==
    IF m = 0 THEN 0
    ELSE IF m = 1 THEN DictGet(cfg.ACCOUNTS_PER_MONTH, 1, 0)
    ELSE IF m = 2 THEN DictGet(cfg.ACCOUNTS_PER_MONTH, 1, 0) + DictGet(cfg.ACCOUNTS_PER_MONTH, 2, 0)
    ELSE DictGet(cfg.ACCOUNTS_PER_MONTH, 1, 0) + DictGet(cfg.ACCOUNTS_PER_MONTH, 2, 0)
             + DictGet(cfg.ACCOUNTS_PER_MONTH, 3, 0)

\* C8: the active accounts of the plan for month m are the sum of the
\* schedule's increments for months 1..m (0 for month 0), and the reported
\* sequence is non-decreasing.
C8_ActiveAccountsCumulative ==
    /\ \A i \in DOMAIN results :
           results[i].active_accounts = ScheduleTotal(results[i].month)
    /\ \A i, j \in DOMAIN results :
           i <= j => results[i].active_accounts <= results[j].active_accounts

\* C8 witness: a finished run whose accounts grew in months 2 and 3.
C8_Witness ==
    /\ pc = "done"
    /\ PlanOf(0).active_accounts = 0
    /\ PlanOf(1).active_accounts > 0
    /\ PlanOf(2).active_accounts > PlanOf(1).active_accounts
    /\ PlanOf(3).active_accounts > PlanOf(2).active_accounts

\* C9: a plan with revenue 0 has gross margin 0, and no run is ended by a
\* division error.
C9_ZeroRevenueZeroMargin ==
    /\ \A i \in DOMAIN results : results[i].revenue = 0 => results[i].margin = Zero
    /\ err # "ZeroDivisionError"

\* C9 witness: an operating month with no active accounts was emitted with
\* revenue 0 and margin 0, after month 0.
C9_Witness ==
    /\ Emitted(1)
    /\ PlanOf(0).revenue = 0 /\ PlanOf(0).margin = Zero
    /\ PlanOf(1).active_accounts = 0
    /\ PlanOf(1).revenue = 0
    /\ PlanOf(1).margin = Zero

\* daily_denials_for_rework = daily_denials * recovery_rate
DailyDenialsRework(daily_claims) == (DailyDenials(daily_claims) * recovery_rate) \div 100

\* C10: every sizer call for the denial process is given
\* daily_claims x denial_rate x recovery_rate, and every call for the
\* submission process is given daily_claims.
C10_DenialSizedOnRework ==
    \A i \in DOMAIN sizer_calls :
        LET call == sizer_calls[i]
            daily_claims == DailyClaims(AccountsFor(call.month))
        IN IF call.process_type = "denial"
           THEN call.daily_workload = DailyDenialsRework(daily_claims)
           ELSE call.daily_workload = daily_claims

\* the monthly throughput of one new hire of the probed process type
ProbeNewHireThroughput ==
    cfg.PRODUCTIVITY_RAMP_UP[probe.process_type].base_throughput * days_per_month
        * cfg.PRODUCTIVITY_RAMP_UP[probe.process_type].productivity[1]

\* the monthly capacity gap of the probed call
ProbeGap == (probe.daily_workload - probe.capacity) * days_per_month

\* C11: when the capacity gap is positive the sizer returns the least n
\* whose tier-0 throughput closes it: n hires cover the gap and n - 1 hires
\* leave a shortfall.
C11_LeastHires ==
    (probe.kind = "call" /\ ProbeGap > 0) =>
        /\ probe.hires * ProbeNewHireThroughput >= ProbeGap
        /\ (probe.hires - 1) * ProbeNewHireThroughput < ProbeGap

\* C11 witness: a tracker with capacity, a positive gap that one new hire
\* does not close and that is not a multiple of a hire's throughput.
C11_Witness ==
    /\ probe.kind = "call"
    /\ probe.capacity > 0
    /\ ProbeGap > 0
    /\ ProbeGap % ProbeNewHireThroughput # 0
    /\ probe.hires >= 2
    /\ probe.hires * ProbeNewHireThroughput >= ProbeGap

\* C11 witness of the exact fit: the gap is a multiple of a hire's throughput
\* and exactly that many are hired.
C11_WitnessExactFit ==
    /\ probe.kind = "call"
    /\ ProbeGap > 0
    /\ ProbeGap % ProbeNewHireThroughput = 0
    /\ probe.hires * ProbeNewHireThroughput = ProbeGap

\* a step of optimize() that processes the month "month" of the current run
MonthStep == pc \in {"constructed", "running"} /\ pc' # "error" /\ month' = month + 1

\* C12: processing month m changes the tracker only by adding entries keyed
\* by m: every cohort recorded before the step has the same headcount after
\* it, and every entry the step adds has hire month m.
C12_CohortsImmutable ==
    [][MonthStep =>
          \A pt \in ProcessTypes :
              /\ \A k \in DOMAIN Tracker[pt] :
                     k \in DOMAIN Tracker'[pt] /\ Tracker'[pt][k] = Tracker[pt][k]
              /\ (DOMAIN Tracker'[pt]) \ (DOMAIN Tracker[pt]) \subseteq {month}]_vars

\* C12 witness: months 2 and 3 each added a cohort while the month-0 cohort
\* still has the headcount month 0 reported.
C12_Witness ==
    /\ pc = "done"
    /\ DOMAIN Tracker.submission = {0, 2, 3}
    /\ PlanOf(0).submission_analysts > 0
    /\ Tracker.submission[0] = PlanOf(0).submission_analysts
    /\ Tracker.submission[2] > 0

\* C13: the tracker never contains a cohort with headcount 0 (a sized hire
\* count of 0 adds no entry, in every month 0..3).
C13_NoZeroCohort ==
    \A pt \in ProcessTypes :
        \A k \in DOMAIN Tracker[pt] : Tracker[pt][k] > 0

\* C14: a configuration without the productivity ramp-up table is rejected
\* at construction, so optimize() is never ended by the error of reading it.
C14_MissingTableFatalAtConstruction ==
    ~(pc = "error" /\ err = "AttributeError" /\ ~HasAttr("PRODUCTIVITY_RAMP_UP"))

\* ------------------------------------------------ reuse of one optimizer
\* optimize() is called again on the same RCMOptimizer: it starts a new
\* results list and the month-0 call; __init__ is not run again, so
\* self.cohorts is what the earlier call left.
Reoptimize ==
    /\ pc \in {"done", "error"}
    /\ Len(history) + 1 < MaxRuns
    /\ history' = Append(history, results)
    /\ results' = << >>
    /\ month' = 0
    /\ pc' = "constructed"
    /\ err' = "none"
    /\ sizer_calls' = << >>
    /\ UNCHANGED <<cfg, monthly_metrics, cohorts, heap, run, probe>>

NextReuse == OptimizeMonth0 \/ OptimizeMonth \/ OptimizeRaises \/ Reoptimize

SpecReuse == Init /\ [][NextReuse]_vars

\* C15: at the start of every run of optimize(), a run on an optimizer that
\* has run before included, the tracker holds no cohorts.
C15_RunStartsEmpty ==
    pc = "constructed" => \A pt \in ProcessTypes : DOMAIN Tracker[pt] = {}

\* C16: in a run from an empty tracker with non-decreasing tiers, month 1
\* commits no cohort for the process type and reports the headcount month 0
\* reported.
C16_Month1NoHire ==
    Emitted(1) =>
        /\ \A pt \in ProcessTypes :
               TiersNonDecreasing(pt) =>
                   /\ CallOf(1, pt).hires = 0
                   /\ 1 \notin DOMAIN Tracker[pt]
        /\ TiersNonDecreasing("submission")
               => PlanOf(1).submission_analysts = PlanOf(0).submission_analysts
        /\ TiersNonDecreasing("denial")
               => PlanOf(1).denial_analysts = PlanOf(0).denial_analysts

\* C16 witness: month 0 trained staff for a month-1 workload, the tiers are
\* non-decreasing, and month 1 was emitted without a new cohort.
C16_Witness ==
    /\ Emitted(1)
    /\ \A pt \in ProcessTypes : TiersNonDecreasing(pt) /\ 1 \notin DOMAIN Tracker[pt]
    /\ PlanOf(1).active_accounts > 0
    /\ PlanOf(0).submission_analysts > 0
    /\ PlanOf(0).denial_analysts > 0
    /\ PlanOf(1).submission_analysts = PlanOf(0).submission_analysts
    /\ PlanOf(1).denial_analysts = PlanOf(0).denial_analysts

\* a run with decreasing tiers in which month 1 does hire: the precondition
\* of C16 is needed
C16_DecreasingTiersHire ==
    /\ Emitted(1)
    /\ ~TiersNonDecreasing("submission")
    /\ 1 \in DOMAIN Tracker.submission

====
